---- MODULE Spec2Model ----
(***************************************************************************)
(* Hierarchical timing wheel (src/src/wheel.rs) over a slab allocator      *)
(* (src/src/slab.rs).  Handles are 1-based slab indices; None is 0.        *)
(* A payload (task) is the ordinal of the insert call that supplied it.    *)
(***************************************************************************)
EXTENDS Integers, Sequences, FiniteSets, TLC

\* ---------------------------------------------------------------- constants
WHEEL_SIZE == 64
WHEEL_BITS == 6
NUM_LEVELS == 4
WHEEL_MASK == 63

\* ------------------------------------------------------------------- bounds
MaxTimers == 2
MaxTick == 104
InsertEarly == 3
InsertLate == 64
MaxSlabCalls == 6
MaxSlabHandle == 4
FarLead == 2
FarWindow == 4
LongTail == 3

\* Ticks at which the caller issues insert calls.
InsertTicks == {0, InsertEarly, InsertLate}

\* Deadlines the caller asks for: level 0, the level 0/1 boundary, level 1,
\* and one deadline in each of level 2, level 3 and beyond 64^4.
Deadlines == {2, 64, 100, 4096, 262144, 16777216 + 5}

\* Handles the caller may pass to cancel: every handle insert can have
\* returned, and one that is never issued.
Handles == 1..(MaxTimers + 1)

None == 0

VARIABLES current_tick, wheels, slab, panic, expired,
          log, cancelled, firedAt, firedCall, calls, ret

vars == <<current_tick, wheels, slab, panic, expired,
          log, cancelled, firedAt, firedCall, calls, ret>>

\* ------------------------------------------------------------ bit arithmetic
\* x >> n on unsigned integers
Shr(x, n) == x \div (2 ^ n)

\* 1 << n
Shl1(n) == 2 ^ n

\* x & m for a mask m of the form 2^k - 1
BitAnd(x, m) == x % (m + 1)

\* SaturatingSub that forgets to subtract
SaturatingSubNone(a, b) == a

\* u64::saturating_sub
SaturatingSub(a, b) == IF a >= b THEN a - b ELSE 0

\* --------------------------------------------------------------------- slab
\* Slab::new
SlabNew == [entries |-> << >>, next_free |-> None]

\* OccupiedEntry that stores level 0 whatever level it is given
OccupiedEntryLevel0(task, deadline, level) ==
    [tag |-> "Occupied", task |-> task, deadline |-> deadline,
     next |-> None, prev |-> None, level |-> 0]

\* Entry::Occupied(TimerEntry { task, deadline, next, prev, level })
OccupiedEntry(task, deadline, level) ==
    [tag |-> "Occupied", task |-> task, deadline |-> deadline,
     next |-> None, prev |-> None, level |-> level]

\* Entry::Free(next)
FreeEntry(nf) == [tag |-> "Free", next_free |-> nf]

\* Slab::get / Slab::get_mut : is the handle in bounds and Occupied
SlabHas(s, handle) ==
    /\ handle >= 1
    /\ handle <= Len(s.entries)
    /\ s.entries[handle].tag = "Occupied"

\* Slab::alloc : the slot handed out
AllocIdx(s) ==
    IF s.next_free # None THEN s.next_free ELSE Len(s.entries) + 1

\* SlabAlloc that never reuses a freed slot
SlabAllocFresh(s, task, deadline, level) ==
    [slab |-> [entries |-> Append(s.entries, OccupiedEntry(task, deadline, level)),
               next_free |-> s.next_free],
     idx |-> Len(s.entries) + 1, panic |-> ""]

\* Slab::alloc : result [slab, idx, panic]
SlabAlloc(s, task, deadline, level) ==
    LET entry == OccupiedEntry(task, deadline, level)
        idx == AllocIdx(s)
    IN  IF s.next_free # None
        THEN IF s.entries[idx].tag = "Free"
             THEN [slab |-> [entries |-> [s.entries EXCEPT ![idx] = entry],
                             next_free |-> s.entries[idx].next_free],
                   idx |-> idx, panic |-> ""]
             ELSE [slab |-> s, idx |-> None, panic |-> "Corrupted free list"]
        ELSE [slab |-> [entries |-> Append(s.entries, entry),
                        next_free |-> s.next_free],
              idx |-> idx, panic |-> ""]

\* SlabFree that hands the task out and leaves the slot Occupied
SlabFreeKeep(s, handle) ==
    IF handle < 1 \/ handle > Len(s.entries)
    THEN [slab |-> s, task |-> None]
    ELSE IF s.entries[handle].tag = "Occupied"
         THEN [slab |-> s, task |-> s.entries[handle].task]
         ELSE [slab |-> s, task |-> None]

\* SlabFree that leaves the Free(next_free) it wrote into an already Free slot
SlabFreeNoRestore(s, handle) ==
    IF handle < 1 \/ handle > Len(s.entries)
    THEN [slab |-> s, task |-> None]
    ELSE IF s.entries[handle].tag = "Occupied"
         THEN [slab |-> [entries |-> [s.entries EXCEPT
                                         ![handle] = FreeEntry(s.next_free)],
                         next_free |-> handle],
               task |-> s.entries[handle].task]
         ELSE [slab |-> [entries |-> [s.entries EXCEPT
                                         ![handle] = FreeEntry(s.next_free)],
                         next_free |-> s.next_free],
               task |-> None]

\* SlabFree that does not chain the freed slot to the old free-list head
SlabFreeUnlinked(s, handle) ==
    IF handle < 1 \/ handle > Len(s.entries)
    THEN [slab |-> s, task |-> None]
    ELSE IF s.entries[handle].tag = "Occupied"
         THEN [slab |-> [entries |-> [s.entries EXCEPT
                                         ![handle] = FreeEntry(None)],
                         next_free |-> handle],
               task |-> s.entries[handle].task]
         ELSE [slab |-> s, task |-> None]

\* Slab::free : result [slab, task] with task = None when nothing was freed
SlabFree(s, handle) ==
    IF handle < 1 \/ handle > Len(s.entries)
    THEN [slab |-> s, task |-> None]
    ELSE IF s.entries[handle].tag = "Occupied"
         THEN [slab |-> [entries |-> [s.entries EXCEPT
                                         ![handle] = FreeEntry(s.next_free)],
                         next_free |-> handle],
               task |-> s.entries[handle].task]
         ELSE [slab |-> s, task |-> None]

\* -------------------------------------------------------------------- wheel
\* LevelOf with the level boundaries taken inclusively
LevelOfInclusive(duration) ==
    IF duration <= Shl1(WHEEL_BITS) THEN 0
    ELSE IF duration <= Shl1(2 * WHEEL_BITS) THEN 1
    ELSE IF duration <= Shl1(3 * WHEEL_BITS) THEN 2
    ELSE 3

\* the level chosen by insert for a duration
LevelOf(duration) ==
    IF duration < Shl1(WHEEL_BITS) THEN 0
    ELSE IF duration < Shl1(2 * WHEEL_BITS) THEN 1
    ELSE IF duration < Shl1(3 * WHEEL_BITS) THEN 2
    ELSE 3

\* SlotOf that takes the low bits of the deadline at every level
SlotOfNoShift(deadline, level) == BitAnd(deadline, WHEEL_MASK)

\* the slot chosen by insert and recomputed by cancel
SlotOf(deadline, level) ==
    BitAnd(Shr(deadline, level * WHEEL_BITS), WHEEL_MASK)

\* TimingWheel::new
WheelNew ==
    [current_tick |-> 0,
     wheels |-> [l \in 0..(NUM_LEVELS - 1) |-> [s \in 0..(WHEEL_SIZE - 1) |-> None]],
     slab |-> SlabNew,
     panic |-> ""]

\* OldHeadPrev that leaves the old head without a predecessor
OldHeadPrevNone(new_idx) == None

\* the prev pointer insert stores in the old head of the bucket
OldHeadPrev(new_idx) == new_idx

\* InsertNext that forgets the old head
InsertNextDrop(old_head_idx) == None

\* the next pointer insert stores in the new entry
InsertNext(old_head_idx) == old_head_idx

\* TimingWheel::insert : result [self, idx]
WheelInsert(self, task, deadline) ==
    LET duration == SaturatingSub(deadline, self.current_tick)
        level == LevelOf(duration)
        slot == SlotOf(deadline, level)
        a == SlabAlloc(self.slab, task, deadline, level)
        new_idx == a.idx
        old_head_idx == self.wheels[level][slot]
    IN  IF a.panic # ""
        THEN [self |-> [self EXCEPT !.panic = a.panic], idx |-> None]
        ELSE LET e1 == [a.slab.entries EXCEPT
                           ![new_idx].next = InsertNext(old_head_idx),
                           ![new_idx].prev = None]
                 e2 == IF old_head_idx # None
                          /\ SlabHas([a.slab EXCEPT !.entries = e1], old_head_idx)
                       THEN [e1 EXCEPT ![old_head_idx].prev = OldHeadPrev(new_idx)]
                       ELSE e1
             IN  [self |-> [self EXCEPT
                               !.slab = [a.slab EXCEPT !.entries = e2],
                               !.wheels[level][slot] = new_idx],
                  idx |-> new_idx]

\* CancelHead that empties the bucket
CancelHeadDrop(next) == None

\* the bucket head cancel stores when the cancelled entry was first
CancelHead(next) == next

\* TimingWheel::cancel : result [self, task] with task = None for absent
WheelCancel(self, idx) ==
    IF ~SlabHas(self.slab, idx)
    THEN [self |-> self, task |-> None]
    ELSE LET entry == self.slab.entries[idx]
             prev == entry.prev
             next == entry.next
             deadline == entry.deadline
             level == entry.level
             slot == SlotOf(deadline, level)
             e1 == IF prev # None /\ SlabHas(self.slab, prev)
                   THEN [self.slab.entries EXCEPT ![prev].next = next]
                   ELSE self.slab.entries
             w1 == IF prev # None
                   THEN self.wheels
                   ELSE [self.wheels EXCEPT ![level][slot] = CancelHead(next)]
             e2 == IF next # None /\ SlabHas([self.slab EXCEPT !.entries = e1], next)
                   THEN [e1 EXCEPT ![next].prev = prev]
                   ELSE e1
             f == SlabFree([self.slab EXCEPT !.entries = e2], idx)
         IN  [self |-> [self EXCEPT !.wheels = w1, !.slab = f.slab],
              task |-> f.task]

\* IsDue that expires whatever the drained bucket holds
IsDueAlways(deadline, tick) == TRUE

\* IsDue that leaves a record whose deadline is the current tick
IsDueStrict(deadline, tick) == deadline < tick

\* the expire-or-cascade test of process_bucket
IsDue(deadline, tick) == deadline <= tick

\* Push that puts the task in front
PushFront(out, task) == <<task>> \o out

\* expired.push(task)
Push(out, task) == Append(out, task)

\* the while loop of process_bucket : result [self, expired]
RECURSIVE WalkBucket(_, _, _)
WalkBucket(self, out, next_idx) ==
    IF next_idx = None \/ self.panic # ""
    THEN [self |-> self, expired |-> out]
    ELSE LET curr_idx == next_idx
         IN  IF ~SlabHas(self.slab, curr_idx)
             THEN [self |-> [self EXCEPT !.panic = "unwrap on None"],
                   expired |-> out]
             ELSE LET deadline == self.slab.entries[curr_idx].deadline
                      next_node == self.slab.entries[curr_idx].next
                      f == SlabFree(self.slab, curr_idx)
                      s1 == [self EXCEPT !.slab = f.slab]
                  IN  IF IsDue(deadline, self.current_tick)
                      THEN WalkBucket(s1,
                                      IF f.task # None THEN Push(out, f.task) ELSE out,
                                      next_node)
                      ELSE WalkBucket(IF f.task # None
                                      THEN WheelInsert(s1, f.task, deadline).self
                                      ELSE s1,
                                      out, next_node)

\* TakeHead that leaves the head in the bucket
TakeHeadKeep(head) == head

\* Option::take on the bucket head: what it leaves in the bucket
TakeHead(head) == None

\* TimingWheel::process_bucket : result [self, expired]
ProcessBucket(self, level, slot, out) ==
    WalkBucket([self EXCEPT !.wheels[level][slot] = TakeHead(@)], out,
               self.wheels[level][slot])

\* Wrapped that never reports a wrap
WrappedNever(tick, level) == FALSE

\* the wrap test of tick for a level: the low level*WHEEL_BITS bits are zero
Wrapped(tick, level) == BitAnd(tick, Shl1(level * WHEEL_BITS) - 1) = 0

\* one cascade check of tick
CascadeLevel(r, level) ==
    IF Wrapped(r.self.current_tick, level)
    THEN ProcessBucket(r.self, level,
                       BitAnd(Shr(r.self.current_tick, level * WHEEL_BITS), WHEEL_MASK),
                       r.expired)
    ELSE r

\* step 1 of tick: drain the level 0 bucket of the current slot
TickDrain(self, out) ==
    ProcessBucket(self, 0, BitAnd(self.current_tick, WHEEL_MASK), out)

\* steps 2 and 3 of tick: advance, then the cascade checks
TickAdvance(r) ==
    LET r0 == [r EXCEPT !.self.current_tick = @ + 1]
        r1 == CascadeLevel(r0, 1)
        r2 == CascadeLevel(r1, 2)
        r3 == CascadeLevel(r2, 3)
    IN  r3

\* --------------------------------------------------------------- the system
Self == [current_tick |-> current_tick, wheels |-> wheels,
         slab |-> slab, panic |-> panic]

\* n copies of v
Rep(n, v) == [i \in 1..n |-> v]

Init ==
    /\ current_tick = WheelNew.current_tick
    /\ wheels = WheelNew.wheels
    /\ slab = WheelNew.slab
    /\ panic = WheelNew.panic
    /\ expired = << >>
    /\ log = << >>
    /\ cancelled = {}
    /\ firedAt = << >>
    /\ firedCall = << >>
    /\ calls = 0
    /\ ret = [op |-> "new", val |-> None]

\* insert(task, deadline), the caller keeping the handle
InsertCall(deadline) ==
    /\ LET task == Len(log) + 1
           r == WheelInsert(Self, task, deadline)
       IN  /\ current_tick' = r.self.current_tick
           /\ wheels' = r.self.wheels
           /\ slab' = r.self.slab
           /\ panic' = r.self.panic
           /\ log' = Append(log, [deadline |-> deadline, at |-> current_tick,
                                  handle |-> r.idx])
           /\ ret' = [op |-> "insert", val |-> r.idx]
    /\ UNCHANGED <<expired, cancelled, firedAt, firedCall, calls>>

\* the caller calls insert(task, deadline) and keeps the handle
Insert(deadline) ==
    /\ panic = ""
    /\ Len(log) < MaxTimers
    /\ current_tick \in InsertTicks
    /\ InsertCall(deadline)

\* the caller calls cancel(idx)
Cancel(idx) ==
    /\ panic = ""
    /\ LET r == WheelCancel(Self, idx)
       IN  /\ current_tick' = r.self.current_tick
           /\ wheels' = r.self.wheels
           /\ slab' = r.self.slab
           /\ panic' = r.self.panic
           /\ cancelled' = IF r.task # None THEN cancelled \cup {r.task}
                           ELSE cancelled
           /\ ret' = [op |-> "cancel", val |-> r.task]
    /\ UNCHANGED <<expired, log, firedAt, firedCall, calls>>

\* tick(&mut expired)
TickCall ==
    /\ LET r0 == TickDrain(Self, expired)
           r == TickAdvance(r0)
           n0 == Len(r0.expired) - Len(expired)
           n1 == Len(r.expired) - Len(r0.expired)
       IN  /\ current_tick' = r.self.current_tick
           /\ wheels' = r.self.wheels
           /\ slab' = r.self.slab
           /\ panic' = r.self.panic
           /\ expired' = r.expired
           /\ firedAt' = firedAt \o Rep(n0, current_tick)
                                 \o Rep(n1, r.self.current_tick)
           /\ firedCall' = firedCall \o Rep(n0 + n1, calls + 1)
           /\ calls' = calls + 1
           /\ ret' = [op |-> "tick", val |-> None]
    /\ UNCHANGED <<log, cancelled>>

\* the caller calls tick(&mut expired)
Tick ==
    /\ panic = ""
    /\ current_tick < MaxTick
    /\ TickCall

Next ==
    \/ \E deadline \in Deadlines : Insert(deadline)
    \/ \E idx \in Handles : Cancel(idx)
    \/ Tick

Spec == Init /\ [][Next]_vars

\* ------------------------------------------- the wheel near a wrap of a level
\* Ticks FarLead before the first wrap of level 1, of level 2 and of level 3.
FarStarts ==
    {Shl1(WHEEL_BITS) - FarLead, Shl1(2 * WHEEL_BITS) - FarLead,
     Shl1(3 * WHEEL_BITS) - FarLead}

\* Durations the caller asks for: one per level, and one of 64^4 ticks and
\* more whose level 3 slot is the first one drained.
FarDurations ==
    {1, Shl1(WHEEL_BITS), Shl1(2 * WHEEL_BITS), Shl1(3 * WHEEL_BITS),
     Shl1(4 * WHEEL_BITS) + FarLead}

\* a new wheel after s tick calls with nothing inserted, s in FarStarts: the
\* buckets and the slab are as new, only current_tick has advanced
InitFar ==
    /\ current_tick \in FarStarts
    /\ wheels = WheelNew.wheels
    /\ slab = WheelNew.slab
    /\ panic = WheelNew.panic
    /\ expired = << >>
    /\ log = << >>
    /\ cancelled = {}
    /\ firedAt = << >>
    /\ firedCall = << >>
    /\ calls = current_tick
    /\ ret = [op |-> "tick", val |-> None]

\* the caller calls insert(task, current_tick + duration)
FarInsert(duration) ==
    /\ panic = ""
    /\ Len(log) < MaxTimers
    /\ current_tick \in FarStarts
    /\ InsertCall(current_tick + duration)

\* the caller calls tick(&mut expired), up to FarWindow times
FarTick ==
    /\ panic = ""
    /\ \E s \in FarStarts : s <= current_tick /\ current_tick < s + FarWindow
    /\ TickCall

NextFar ==
    \/ \E duration \in FarDurations : FarInsert(duration)
    \/ \E idx \in Handles : Cancel(idx)
    \/ FarTick

SpecFar == InitFar /\ [][NextFar]_vars

\* ------------------------------------------------ the wheel over long runs
\* the buckets whose head is not None
Busy ==
    {b \in (0..(NUM_LEVELS - 1)) \X (0..(WHEEL_SIZE - 1)) : wheels[b[1]][b[2]] # None}

\* the first t >= c such that the tick call that starts at current_tick = t
\* calls process_bucket on bucket b: level 0 is drained at slot t & 63 before
\* the increment, level L >= 1 at slot ((t+1) >> 6L) & 63 after it when the low
\* 6L bits of t+1 are zero
NextDrain(b, c) ==
    IF b[1] = 0
    THEN c + ((b[2] - c) % WHEEL_SIZE)
    ELSE c + ((b[2] * Shl1(b[1] * WHEEL_BITS) - (c + 1))
                 % Shl1((b[1] + 1) * WHEEL_BITS))

\* the ticks after c at which the caller acts next: the first tick whose call
\* drains a bucket that is not empty, and the ticks of FarStarts
EventTicks(c) ==
    {NextDrain(b, c) : b \in Busy} \cup {s \in FarStarts : s > c}

\* the last tick a run of tick calls goes to
LongEnd == Shl1(4 * WHEEL_BITS) + Shl1(3 * WHEEL_BITS) + LongTail

\* Durations the caller asks for: none, one per level, and two of 64^4 ticks
\* and more, to a deadline that is a multiple of 64 and to one that is not.
LongDurations ==
    {0, 1, Shl1(WHEEL_BITS), Shl1(2 * WHEEL_BITS), Shl1(3 * WHEEL_BITS),
     Shl1(4 * WHEEL_BITS) + FarLead, Shl1(4 * WHEEL_BITS) + FarLead + 1}

\* the caller calls insert(task, current_tick + duration)
LongInsert(duration) ==
    /\ panic = ""
    /\ Len(log) < MaxTimers
    /\ current_tick \in FarStarts
    /\ InsertCall(current_tick + duration)

\* the caller calls tick(&mut expired): a call that drains a bucket that is
\* not empty, a call within FarWindow of a tick of FarStarts, or one of the
\* LongTail calls from the deadline of a timer on
LongTick ==
    /\ panic = ""
    /\ current_tick < LongEnd
    /\ \/ \E b \in Busy : NextDrain(b, current_tick) = current_tick
       \/ \E s \in FarStarts : s <= current_tick /\ current_tick < s + FarWindow
       \/ \E p \in 1..Len(log) :
             log[p].deadline <= current_tick
             /\ current_tick < log[p].deadline + LongTail
    /\ TickCall

\* the caller calls tick(&mut expired) again and again, up to the next tick
\* of EventTicks: each of these calls finds every bucket it drains empty, so
\* it changes current_tick alone
TickRun ==
    /\ panic = ""
    /\ EventTicks(current_tick) # {}
    /\ LET t == CHOOSE x \in EventTicks(current_tick) :
                    \A y \in EventTicks(current_tick) : x <= y
       IN  /\ t > current_tick
           /\ t <= LongEnd
           /\ current_tick' = t
           /\ calls' = calls + (t - current_tick)
           /\ ret' = [op |-> "tick", val |-> None]
    /\ UNCHANGED <<wheels, slab, panic, expired, log, cancelled, firedAt, firedCall>>

NextLong ==
    \/ \E duration \in LongDurations : LongInsert(duration)
    \/ \E idx \in Handles : Cancel(idx)
    \/ LongTick
    \/ TickRun

SpecLong == InitFar /\ [][NextLong]_vars

\* ----------------------------------------------------------- the slab alone
\* Handles the caller may pass to free: in bounds, freed before, or beyond the
\* store.
SlabHandles == 1..MaxSlabHandle

\* the caller calls slab.alloc(task, 10, 0); in this specification log holds
\* the calls made so far, [op, handle, val]
AllocCall ==
    /\ panic = ""
    /\ Len(log) < MaxSlabCalls
    /\ LET task == Len(log) + 1
           r == SlabAlloc(slab, task, 10, 0)
       IN  /\ slab' = r.slab
           /\ panic' = r.panic
           /\ log' = Append(log, [op |-> "alloc", handle |-> r.idx, val |-> task])
           /\ ret' = [op |-> "alloc", val |-> r.idx]
    /\ UNCHANGED <<current_tick, wheels, expired, cancelled, firedAt,
                   firedCall, calls>>

\* the caller calls slab.free(handle)
FreeCall(handle) ==
    /\ panic = ""
    /\ Len(log) < MaxSlabCalls
    /\ LET r == SlabFree(slab, handle)
       IN  /\ slab' = r.slab
           /\ log' = Append(log, [op |-> "free", handle |-> handle, val |-> r.task])
           /\ ret' = [op |-> "free", val |-> r.task]
    /\ UNCHANGED <<current_tick, wheels, panic, expired, cancelled, firedAt,
                   firedCall, calls>>

NextSlab ==
    \/ AllocCall
    \/ \E handle \in SlabHandles : FreeCall(handle)

SpecSlab == Init /\ [][NextSlab]_vars

\* Deadlines on both sides of every level boundary, for placement at tick 0.
PlaceDeadlines ==
    {1, 63, 64, 65, 100, 4095, 4096, 4097, 262143, 262144, 262145,
     16777215, 16777216, 16777216 + 5}

\* insert calls on a new wheel, before any tick
NextPlace == \E deadline \in PlaceDeadlines : Insert(deadline)

SpecPlace == Init /\ [][NextPlace]_vars

\* ------------------------------------------------------------ observations
\* how often payload p occurs in a sequence of payloads
Count(p, s) == Cardinality({i \in 1..Len(s) : s[i] = p})

\* the payloads inserted so far
Inserted == 1..Len(log)

\* p has been inserted and neither reported by tick nor returned by cancel
Pending(p) == p \in Inserted /\ p \notin cancelled /\ Count(p, expired) = 0

\* the position of payload p in the expired collection
PosOf(p) == CHOOSE i \in 1..Len(expired) : expired[i] = p

\* p was inserted with a deadline after the tick of its insertion and less
\* than 64^4 ticks ahead of it
InRange(p) ==
    /\ log[p].deadline > log[p].at
    /\ log[p].deadline - log[p].at < 64 * 64 * 64 * 64

\* ------------------------------------------------------------------- claims
\* C1: no leak, no duplicate firing.  With no cancellation, once current_tick
\* is past the deadline of every timer inserted so far (each deadline after
\* the tick of its insertion and less than 64^4 ahead of it), every inserted
\* payload occurs exactly once in the expired collection.
C1_NoLeakNoDuplicate ==
    (/\ cancelled = {}
     /\ \A p \in Inserted : InRange(p) /\ current_tick > log[p].deadline)
    => /\ \A p \in Inserted : Count(p, expired) = 1
       /\ Len(expired) = Len(log)

\* C1 witness: two timers, one placed in level 1 and cascaded, one inserted
\* between tick calls, both past their deadline and both reported once.
C1_Witness ==
    /\ cancelled = {}
    /\ Len(log) = 2
    /\ log[1].deadline = 100 /\ log[1].at = 0
    /\ log[2].at > 0
    /\ \A p \in Inserted : InRange(p) /\ current_tick > log[p].deadline
    /\ \A p \in Inserted : Count(p, expired) = 1

\* C2: no early firing.  Every payload in the expired collection was pushed
\* at a moment when its deadline was <= current_tick.
C2_NoEarlyFiring ==
    \A i \in 1..Len(expired) : log[expired[i]].deadline <= firedAt[i]

\* C2 witness: a timer placed in level 1 has gone through a cascade and has
\* been reported.
C2_Witness ==
    \E i \in 1..Len(expired) :
        /\ log[expired[i]].deadline = 100
        /\ log[expired[i]].at = 0
        /\ firedAt[i] >= log[expired[i]].deadline

\* the tick call that reports a timer inserted at tick 0 with deadline d
FiringCall(d) == IF d % 64 = 0 THEN d ELSE d + 1

C4_FiresOnCallAfterDeadline ==
    \A p \in Inserted :
        (log[p].at = 0 /\ log[p].deadline >= 1 /\ p \notin cancelled)
        => /\ calls >= log[p].deadline + 1 => Count(p, expired) = 1
           /\ Count(p, expired) > 0 => firedCall[PosOf(p)] = log[p].deadline + 1

\* C5, first part: cancel called with the handle insert returned for a
\* pending timer returns that timer's payload.
C5_CancelReturnsOwn ==
    \A p \in Inserted :
        (Pending(p) /\ Cancel(log[p].handle))
        => (ret'.val = p /\ p \in cancelled' /\ ~Pending(p)')

\* C5: cancel(h), with h the handle insert returned for a pending timer,
\* returns that timer's payload; a payload returned by cancel is never in the
\* expired collection; every timer not cancelled (deadline after the tick of
\* its insertion) is reported exactly once when current_tick is past it.
C5_CancelRemoves ==
    /\ [][C5_CancelReturnsOwn]_vars
    /\ [](\A p \in cancelled : Count(p, expired) = 0)
    /\ [](\A p \in Inserted :
            (p \notin cancelled /\ InRange(p) /\ current_tick > log[p].deadline)
            => Count(p, expired) = 1)
    /\ [](\A p \in Inserted : Count(p, expired) <= 1)

\* C5 witness: two timers with deadline 100 share a level 1 bucket; after the
\* cascade at tick 64, cancel with the first handle has just returned the
\* first payload and the second timer is still pending.
C5_Witness ==
    /\ Len(log) = 2
    /\ log[1] = [deadline |-> 100, at |-> 0, handle |-> 1]
    /\ log[2].deadline = 100 /\ log[2].at = 0
    /\ current_tick >= 64
    /\ ret = [op |-> "cancel", val |-> 1]
    /\ 1 \in cancelled
    /\ Pending(2)

\* some insert call returned handle h
Issued(h) == \E p \in Inserted : log[p].handle = h

\* cancel(h) returned None and left the wheel as it was
CancelAbsent == ret'.val = None /\ UNCHANGED <<wheels, slab, current_tick>>

\* C6 as stated: cancel(h) returns None and leaves the wheel unchanged when h
\* was never issued, or a timer h was issued for has expired or been
\* cancelled.
C6_AsStated ==
    [][\A h \in Handles :
          (/\ Cancel(h)
           /\ \/ ~Issued(h)
              \/ \E p \in Inserted : /\ log[p].handle = h
                                      /\ (Count(p, expired) > 0 \/ p \in cancelled))
          => CancelAbsent]_vars

\* C6 amended: cancel(h) returns None and leaves the wheel unchanged when h
\* is not the handle of a timer that is still pending (never issued, or every
\* timer it was issued for has expired or been cancelled).
C6_AbsentUnlessPending ==
    [][\A h \in Handles :
          (Cancel(h) /\ ~(\E p \in Inserted : Pending(p) /\ log[p].handle = h))
          => CancelAbsent]_vars

\* C6 witness: one timer has expired, one has been cancelled, nothing is
\* pending, and a cancel call has just returned None.
C6_Witness ==
    /\ Len(log) = 2
    /\ Len(expired) = 1
    /\ Cardinality(cancelled) = 1
    /\ ret = [op |-> "cancel", val |-> None]

\* payload p is stored in an Occupied slot
Resident(p) ==
    \E h \in 1..Len(slab.entries) :
        slab.entries[h].tag = "Occupied" /\ slab.entries[h].task = p

\* the handle of the slot that stores payload p
HolderOf(p) ==
    CHOOSE h \in 1..Len(slab.entries) :
        slab.entries[h].tag = "Occupied" /\ slab.entries[h].task = p

\* p is resident at a level other than the one insert placed it in
Cascaded(p) ==
    /\ Resident(p)
    /\ slab.entries[HolderOf(p)].level
          # LevelOf(SaturatingSub(log[p].deadline, log[p].at))

\* C7 as stated: a cascaded record is held under a handle different from the
\* one insert returned, and cancel with the original handle does not return
\* its payload.
C7_AsStated ==
    \A p \in Inserted :
        Cascaded(p) => /\ HolderOf(p) # log[p].handle
                       /\ WheelCancel(Self, log[p].handle).task # p

\* C7 amended: when tick cascades a not-yet-due record, the record is
\* re-linked under the same handle insert returned (the slot just freed is
\* the one alloc reuses), so cancel with that handle returns its payload.
C7_HandleSurvivesCascade ==
    \A p \in Inserted :
        Cascaded(p) => /\ HolderOf(p) = log[p].handle
                       /\ WheelCancel(Self, log[p].handle).task = p

\* C7 witness: slot 1 is on the free list, and the timer of slot 2 has been
\* cascaded from level 1 to level 0 and is still held in slot 2.
C7_Witness ==
    /\ Len(log) = 2
    /\ log[2] = [deadline |-> 100, at |-> 0, handle |-> 2]
    /\ Cascaded(2)
    /\ HolderOf(2) = 2
    /\ slab.next_free = 1

\* C8: a step leaves the elements already in the expired collection in place,
\* as a prefix of the new collection.
C8_TickOnlyAppends ==
    [][/\ Len(expired') >= Len(expired)
       /\ SubSeq(expired', 1, Len(expired)) = expired]_vars

\* C8 witness: a tick call has appended to a collection that already held a
\* payload of an earlier call.
C8_Witness ==
    /\ Len(expired) = 2
    /\ firedCall[1] < firedCall[2]
    /\ ret.op = "tick"
    /\ firedCall[2] = calls

\* floor(log64(d)) clipped to [0, 3]
Log64Clipped(d) ==
    IF d < 64 THEN 0
    ELSE IF d < 64 * 64 THEN 1
    ELSE IF d < 64 * 64 * 64 THEN 2
    ELSE 3

\* C9: after insert at tick 0 with deadline d, the returned handle heads
\* bucket levels[L][(d >> 6L) & 63] and the record stores level L, with
\* L = floor(log64(d)) clipped to [0, 3].
C9_Placement ==
    (ret.op = "insert" /\ current_tick = 0)
    => LET d == log[Len(log)].deadline
           L == Log64Clipped(d)
       IN  /\ ret.val = log[Len(log)].handle
           /\ wheels[L][(d \div (64 ^ L)) % 64] = ret.val
           /\ slab.entries[ret.val].level = L
           /\ slab.entries[ret.val].deadline = d

\* C9 witness: a level 2 and then a level 3 deadline inserted at tick 0.
C9_Witness ==
    /\ ret.op = "insert" /\ current_tick = 0
    /\ Len(log) = 2
    /\ log[1].deadline = 4096
    /\ log[2].deadline = 262144
    /\ wheels[3][1] = ret.val
    /\ wheels[2][1] = log[1].handle

\* C10: insert with deadline <= current_tick links the record at the head of
\* levels[0][current_tick & 63], and the next tick call reports it.
C10_AlreadyDue ==
    /\ (ret.op = "insert" /\ log[Len(log)].deadline <= current_tick)
       => /\ wheels[0][current_tick % 64] = ret.val
          /\ slab.entries[ret.val].level = 0
    /\ \A p \in Inserted :
          (log[p].deadline <= log[p].at /\ p \notin cancelled
             /\ current_tick > log[p].at)
          => Count(p, expired) = 1

\* ------------------------------------------------ claims on the structure
\* the handles of the Occupied slots
Occ == {h \in 1..Len(slab.entries) : slab.entries[h].tag = "Occupied"}

\* the handles met by following next from handle from, at most n of them; the
\* walk stops after a handle that is not an Occupied slot
RECURSIVE ListFrom(_, _)
ListFrom(from, n) ==
    IF n = 0 \/ from = None THEN << >>
    ELSE IF from \notin Occ THEN <<from>>
    ELSE <<from>> \o ListFrom(slab.entries[from].next, n - 1)

\* the list of bucket levels[l][s]; a list with a cycle shows a handle twice
BucketList(l, s) == ListFrom(wheels[l][s], Len(slab.entries) + 1)

\* the buckets whose head is not None
Heads ==
    {b \in (0..(NUM_LEVELS - 1)) \X (0..(WHEEL_SIZE - 1)) : wheels[b[1]][b[2]] # None}

\* the positions of handle h in the list of bucket b
Places(h, b) ==
    {i \in 1..Len(BucketList(b[1], b[2])) : BucketList(b[1], b[2])[i] = h}

\* C13 as stated: every resident record has deadline > current_tick.
C13_AsStated ==
    \A h \in Occ : slab.entries[h].deadline > current_tick

\* C13 amended: every resident record whose deadline was >= current_tick when
\* it was inserted has deadline >= current_tick; a record is resident with
\* deadline = current_tick until the next tick call drains its slot.
C13_ResidentNotOverdue ==
    \A h \in Occ :
        LET p == slab.entries[h].task
        IN  log[p].deadline >= log[p].at
            => slab.entries[h].deadline >= current_tick

\* C13 witness: the record with deadline 100, placed in level 1 and cascaded,
\* is resident with current_tick = 100.
C13_Witness ==
    /\ current_tick = 100
    /\ \E h \in Occ : /\ slab.entries[h].deadline = 100
                       /\ log[slab.entries[h].task].at = 0
                       /\ slab.entries[h].level = 0

\* C14: every Occupied slot is in the list of exactly one bucket, once; every
\* handle in a bucket list is an Occupied slot; no list has a cycle.
C14_OneBucketEach ==
    /\ \A b \in Heads : \A i \in 1..Len(BucketList(b[1], b[2])) :
          /\ BucketList(b[1], b[2])[i] \in Occ
          /\ Cardinality(Places(BucketList(b[1], b[2])[i], b)) = 1
    /\ \A h \in Occ :
          /\ Cardinality({b \in Heads : Places(h, b) # {}}) = 1
          /\ \A b \in Heads : Cardinality(Places(h, b)) <= 1

\* C14 witness: after the cascade at tick 64 two records share the level 0
\* bucket of slot 36.
C14_Witness ==
    /\ current_tick >= 64
    /\ Len(BucketList(0, 36)) = 2
    /\ Cardinality(Occ) = 2

\* the bucket cancel computes from the stored deadline and level of slot h
StoredBucket(h) ==
    <<slab.entries[h].level,
      (slab.entries[h].deadline \div (64 ^ slab.entries[h].level)) % 64>>

\* C15: every resident record is linked into the bucket given by its level
\* field and the slot (deadline >> 6*level) & 63.
C15_LevelMatchesBucket ==
    \A h \in Occ :
        /\ slab.entries[h].level \in 0..(NUM_LEVELS - 1)
        /\ StoredBucket(h) \in Heads
        /\ Places(h, StoredBucket(h)) # {}

\* C15 witness: of two records cascaded from level 1 into levels[0][36], one
\* has just been cancelled and the other is alone in that bucket.
C15_Witness ==
    /\ current_tick >= 64
    /\ ret.op = "cancel" /\ ret.val # None
    /\ log[ret.val].deadline = 100 /\ log[ret.val].at = 0
    /\ \E h \in Occ : /\ log[slab.entries[h].task].at = 0
                       /\ StoredBucket(h) = <<0, 36>>
                       /\ BucketList(0, 36) = <<h>>

BucketOf(p) == CHOOSE b \in Heads : Places(HolderOf(p), b) # {}

\* the level of the bucket that holds the record of payload p
LevelNow(p) == BucketOf(p)[1]

\* the buckets process_bucket is called on by a tick call that starts at
\* current_tick = t: levels[0][t mod 64], then levels[L][((t+1) / 64^L) mod 64]
\* for each L in 1..3 with t+1 a multiple of 64^L
DrainedBuckets(t) ==
    {<<0, t % 64>>}
    \cup {b \in (1..3) \X (0..63) :
            /\ (t + 1) % (64 ^ b[1]) = 0
            /\ b[2] = ((t + 1) \div (64 ^ b[1])) % 64}

\* this step is a tick call and the record of payload p is in a bucket that
\* the call drains
Walked(p) ==
    /\ calls' = calls + 1
    /\ Resident(p)
    /\ BucketOf(p) \in DrainedBuckets(current_tick)

\* the position of payload p in the sequence s
PosIn(p, s) == CHOOSE i \in 1..Len(s) : s[i] = p

\* this step reports payload p
Reported(p) == Count(p, expired') = Count(p, expired) + 1

\* C18: cascade refines downward.  Whenever a tick call drains a bucket of
\* level L in 1..3 and finds a record that is not yet due and whose deadline
\* was less than 64^4 ticks ahead when it was inserted, the record is resident
\* after the call in a bucket of a level strictly below L, the level and slot
\* being those of its deadline against the advanced current_tick.
C18_CascadeStep ==
    \A p \in Inserted :
        (/\ Walked(p)
         /\ LevelNow(p) >= 1
         /\ InRange(p)
         /\ log[p].deadline > current_tick')
        => /\ Resident(p)'
           /\ LevelNow(p)' < LevelNow(p)
           /\ LevelNow(p)' = Log64Clipped(log[p].deadline - current_tick')
           /\ BucketOf(p)' =
                 <<LevelNow(p)', (log[p].deadline \div (64 ^ LevelNow(p)')) % 64>>
           /\ slab.entries'[HolderOf(p)'].level = LevelNow(p)'

C18_CascadeRefinesDownward == [][C18_CascadeStep]_vars

\* C18 witness: the tick call that reaches current_tick = 64^3 has moved one
\* record from level 3 to level 2 and another from level 2 to level 1.
C18_Witness ==
    /\ current_tick = 64 * 64 * 64
    /\ \E p, q \in Inserted :
          /\ InRange(p) /\ InRange(q)
          /\ Resident(p) /\ Resident(q)
          /\ Log64Clipped(log[p].deadline - log[p].at) = 3 /\ LevelNow(p) = 2
          /\ Log64Clipped(log[q].deadline - log[q].at) = 2 /\ LevelNow(q) = 1

\* a, inserted before b, and b are in one bucket and one tick call reports both
ExpireTogether(a, b) ==
    /\ a < b
    /\ Walked(a) /\ Walked(b)
    /\ BucketOf(a) = BucketOf(b)
    /\ Reported(a) /\ Reported(b)

\* the bucket insert placed payload p in
FirstBucket(p) ==
    LET L == Log64Clipped(SaturatingSub(log[p].deadline, log[p].at))
    IN  <<L, (log[p].deadline \div (64 ^ L)) % 64>>

\* the deadline of p was less than 64^4 ticks ahead when it was inserted
Near(p) == log[p].deadline - log[p].at < 64 * 64 * 64 * 64

\* C19 as stated: of two timers expired from one bucket by one tick call, the
\* one inserted later is appended to expired first.
C19_StatedStep ==
    \A a, b \in Inserted :
        ExpireTogether(a, b) => PosIn(b, expired') < PosIn(a, expired')

C19_AsStated == [][C19_StatedStep]_vars

\* C19 amended: of two timers expired from one bucket by one tick call, the
\* one inserted later is appended first when insert itself linked both into
\* that bucket (neither was moved by a cascade, both deadlines less than 64^4
\* ahead at insertion); when insert placed both in one level 1 bucket and a
\* cascade moved them into the bucket they expire from, the one inserted
\* earlier is appended first.
C19_ExpiryStep ==
    \A a, b \in Inserted :
        ExpireTogether(a, b)
        => /\ (/\ ~Cascaded(a) /\ ~Cascaded(b)
               /\ Near(a) /\ Near(b))
              => PosIn(b, expired') < PosIn(a, expired')
           /\ (/\ Cascaded(a) /\ Cascaded(b)
               /\ FirstBucket(a) = FirstBucket(b)
               /\ FirstBucket(a)[1] = 1)
              => PosIn(a, expired') < PosIn(b, expired')

C19_ExpiryOrder == [][C19_ExpiryStep]_vars

\* C19 witness: two timers inserted into one level 0 bucket have been
\* reported by one tick call, the later one first.
C19_Witness ==
    /\ Len(log) = 2
    /\ FirstBucket(1) = FirstBucket(2)
    /\ FirstBucket(1)[1] = 0
    /\ expired = <<2, 1>>
    /\ firedCall[1] = firedCall[2]

\* the record of payload p is stored in one Occupied slot, whose handle is
\* once in the list of one bucket and in no other list
LinkedOnce(p) ==
    /\ Cardinality({h \in Occ : slab.entries[h].task = p}) = 1
    /\ \E b \in Heads :
          /\ Cardinality(Places(HolderOf(p), b)) = 1
          /\ \A c \in Heads \ {b} : Places(HolderOf(p), c) = {}

\* every handle in every bucket list is the handle of an Occupied slot
NoDangling ==
    \A b \in Heads :
        \A i \in 1..Len(BucketList(b[1], b[2])) :
            BucketList(b[1], b[2])[i] \in Occ

\* C20: a tick call handles each record of each bucket it drains exactly once:
\* a due record is reported once and is no longer resident, a record not yet
\* due is reported by no one and is resident once, in one bucket list; no
\* unwrap fails, the call ends, and no list keeps a handle of a freed slot or
\* a cycle, also when the record is re-inserted into the bucket being drained.
C20_DrainStep ==
    calls' = calls + 1
    => /\ panic' = ""
       /\ NoDangling'
       /\ \A p \in Inserted :
             Walked(p)
             => \/ /\ Reported(p)
                   /\ ~Resident(p)'
                \/ /\ Count(p, expired') = Count(p, expired)
                   /\ LinkedOnce(p)'
                   /\ log[p].deadline > current_tick'

C20_DrainOnce == [][C20_DrainStep]_vars

\* C20 witness: the tick call that reaches current_tick = 64^3 has drained
\* levels[3][1] and re-inserted into it both of its records, whose deadlines
\* are 64^4 ticks and more ahead; the one inserted first is now the head.
C20_Witness ==
    /\ current_tick = 64 * 64 * 64
    /\ ret.op = "tick"
    /\ Len(log) = 2
    /\ \A p \in {1, 2} :
          /\ log[p].deadline - current_tick >= 64 * 64 * 64 * 64
          /\ Resident(p)
          /\ BucketOf(p) = <<3, 1>>
    /\ wheels[3][1] = HolderOf(1)
    /\ slab.entries[HolderOf(1)].next = HolderOf(2)

\* a tick call that starts at a tick at which no bucket that is not empty is
\* drained changes current_tick alone: what TickRun relies on
TickRunStep ==
    (/\ calls' = calls + 1
     /\ \A b \in Busy : NextDrain(b, current_tick) # current_tick)
    => /\ current_tick' = current_tick + 1
       /\ UNCHANGED <<wheels, slab, panic, expired, log, cancelled, firedAt, firedCall>>

TickRunSound == [][TickRunStep]_vars

\* C21: no late firing.  A timer inserted with a deadline d >= current_tick,
\* 64^4 ticks ahead and more included, and never cancelled has been appended
\* to expired, once, when the tick call that begins with current_tick = d has
\* returned; it was pushed at a moment when current_tick = d, by the (d+1)-th
\* tick call or an earlier one; and it is not resident once current_tick > d.
C21_NoLateFiring ==
    \A p \in Inserted :
        (log[p].deadline >= log[p].at /\ p \notin cancelled)
        => /\ current_tick > log[p].deadline
                 => Count(p, expired) = 1 /\ ~Resident(p)
           /\ Count(p, expired) > 0
                 => /\ firedAt[PosOf(p)] = log[p].deadline
                    /\ firedCall[PosOf(p)] <= log[p].deadline + 1

\* C21 witness: two timers with deadlines 64^4 ticks ahead and more, one a
\* multiple of 64 and one not, have both been reported and current_tick is
\* past both deadlines.
C21_Witness ==
    /\ Len(log) = 2
    /\ \A p \in {1, 2} :
          /\ log[p].deadline - log[p].at >= 64 * 64 * 64 * 64
          /\ current_tick > log[p].deadline
          /\ Count(p, expired) = 1
    /\ \E p, q \in {1, 2} :
          log[p].deadline % 64 = 0 /\ log[q].deadline % 64 # 0

\* ----------------------------------------------------- claims on the slab
\* The history of slab calls, replayed without the slab: hist.stack is the
\* handles freed and not yet reused (most recent last), hist.slots the number
\* of slots handed out so far.
RECURSIVE HistAfter(_)
HistAfter(n) ==
    IF n = 0
    THEN [stack |-> << >>, slots |-> 0]
    ELSE LET h == HistAfter(n - 1)
             c == log[n]
             onStack == \E i \in 1..Len(h.stack) : h.stack[i] = c.handle
         IN  IF c.op = "free"
             THEN IF c.handle <= h.slots /\ ~onStack
                  THEN [h EXCEPT !.stack = Append(@, c.handle)]
                  ELSE h
             ELSE IF h.stack # << >>
                  THEN [h EXCEPT !.stack = SubSeq(@, 1, Len(@) - 1)]
                  ELSE [h EXCEPT !.slots = @ + 1]

\* C11: alloc returns the most recently freed slot that has not been reused
\* and does not grow the store; with no such slot it returns the previous
\* number of slots plus one.  The handle is never 0.
C11_ReuseIsLifo ==
    ret.op = "alloc"
    => LET h == HistAfter(Len(log) - 1)
       IN  /\ ret.val # 0
           /\ panic = ""
           /\ h.stack # << >> => /\ ret.val = h.stack[Len(h.stack)]
                                 /\ Len(slab.entries) = h.slots
           /\ h.stack = << >> => /\ ret.val = h.slots + 1
                                 /\ Len(slab.entries) = h.slots + 1

\* C11 witness: three allocs, free of the second, then an alloc that got
\* handle 2 again and an alloc that got the fresh handle 4.
C11_Witness ==
    /\ Len(log) = 6
    /\ log[4] = [op |-> "free", handle |-> 2, val |-> 2]
    /\ log[5] = [op |-> "alloc", handle |-> 2, val |-> 5]
    /\ log[6] = [op |-> "alloc", handle |-> 4, val |-> 6]
    /\ ret = [op |-> "alloc", val |-> 4]

\* C12, the step: free of a handle beyond the store or of a Free slot returns
\* None and leaves the slab as it was.
C12_FreeOfFreeStep ==
    \A h \in SlabHandles :
        (/\ FreeCall(h)
         /\ \/ h > Len(slab.entries)
            \/ slab.entries[h].tag = "Free")
        => (ret'.val = None /\ slab' = slab)

\* C12: double free is a no-op, and of two consecutive frees of one handle
\* only the first can return a payload.
C12_DoubleFreeNoOp ==
    /\ [][C12_FreeOfFreeStep]_vars
    /\ [](\A n \in 2..Len(log) :
            (/\ log[n].op = "free" /\ log[n - 1].op = "free"
             /\ log[n].handle = log[n - 1].handle)
            => log[n].val = None)

\* C12 witness: a slot was freed, returning its payload, and freed again at
\* once, returning None, with another freed slot behind it on the free list.
C12_Witness ==
    /\ Len(log) >= 2
    /\ log[Len(log) - 1].op = "free" /\ log[Len(log) - 1].val # None
    /\ log[Len(log)] = [op |-> "free", handle |-> log[Len(log) - 1].handle,
                        val |-> None]
    /\ slab.next_free = log[Len(log)].handle
    /\ slab.entries[slab.next_free].next_free # None

\* the first n handles on the free list of slab s, from next_free
RECURSIVE FreeChain(_, _, _)
FreeChain(s, from, n) ==
    IF n = 0 \/ from = None \/ from > Len(s.entries) THEN << >>
    ELSE IF s.entries[from].tag # "Free" THEN <<from>>
    ELSE <<from>> \o FreeChain(s, s.entries[from].next_free, n - 1)

\* C17: the free list visits only Free slots, every Free slot exactly once,
\* and ends at None; alloc never finds it corrupted.
C17_FreeListIntact ==
    LET chain == FreeChain(slab, slab.next_free, Len(slab.entries) + 1)
        free == {h \in 1..Len(slab.entries) : slab.entries[h].tag = "Free"}
    IN  /\ panic = ""
        /\ \A i \in 1..Len(chain) : chain[i] \in free
        /\ \A i, j \in 1..Len(chain) : chain[i] = chain[j] => i = j
        /\ {chain[i] : i \in 1..Len(chain)} = free
        /\ slab.next_free <= Len(slab.entries)
        /\ \A h \in free : slab.entries[h].next_free <= Len(slab.entries)

\* C17 witness: two slots on the free list, after a double free and a free
\* beyond the store.
C17_Witness ==
    /\ Len(FreeChain(slab, slab.next_free, Len(slab.entries) + 1)) = 2
    /\ \E n \in 1..Len(log) :
          log[n].op = "free" /\ log[n].val = None
            /\ log[n].handle > Len(slab.entries)
    /\ \E n \in 2..Len(log) :
          log[n].op = "free" /\ log[n].val = None
            /\ log[n - 1] = [op |-> "free", handle |-> log[n].handle,
                             val |-> log[n].handle]

====
